---- MODULE Spec2Model ----
(***************************************************************************)
(* A model of mm.c, a boundary-tag allocator with an explicit free list.   *)
(*                                                                         *)
(* The heap is a sparse word memory: mem maps every heap word the          *)
(* allocator (or memcpy/memset) has stored to its value.  Words are        *)
(* uintptr_t values, arithmetic is modulo Modulus.                         *)
(*                                                                         *)
(* mm.c uses three names it never declares.  They are read as follows:     *)
(*   free_listp          a file-scope pointer, zero-initialised like every *)
(*                       static object (mm_init never assigns it);         *)
(*   size, bp (find_fit) locals, size starting as the parameter asize.     *)
(*                                                                         *)
(* An access outside the heap (through NULL, through a word read as a      *)
(* pointer that is none) is undefined behaviour.  Each operation draws an  *)
(* oracle o for foreign memory, and the call either traps at such an       *)
(* access (status "segv") or carries it out on foreign memory:             *)
(* a store there changes no heap word, a load yields o.hdr (a word read as *)
(* a header) or o.ptr (a word read as a link).  A load of a heap word      *)
(* that was never stored is an indeterminate value, drawn the same way.    *)
(* A search loop that comes back to a block it has tested never ends       *)
(* (status "hang").                                                        *)
(***************************************************************************)
EXTENDS Integers, Sequences, FiniteSets, TLC

\* ---------------------------------------------------------------- constants
WSIZE == 8
DSIZE == 2 * WSIZE
ALIGNMENT == 2 * WSIZE
CHUNKSIZE == 4096
OVERHEAD == DSIZE
LISTLIMIT == 20
NULL == 0

\* width of size_t / uintptr_t in the model, and the wrap-around modulus
WordBits == 24
Modulus == 2 ^ WordBits

\* memlib: the address mem_sbrk first returns, and how far the heap may grow
HeapBase == 1048576
MaxChunks == 3
HeapLimit == HeapBase + 8 * WSIZE + MaxChunks * CHUNKSIZE

\* longest run of public calls explored after mm_init
MaxOps == 3

Wrap(x) == x % Modulus

\* Let([x \in {v} |-> e]) is e with x bound to the value of v: v is
\* evaluated once, before e, as a C statement is before the next one
Let(f) == f[CHOOSE x \in DOMAIN f : TRUE]

\* ------------------------------------------------------------- memory layer
\* mem_heap_lo() <= a < mem_brk, word aligned
Valid(S, a) == Let([x \in {a} |-> x % WSIZE = 0 /\ x >= HeapBase /\ x < S.brk])

\* an access at a: outside the heap it is undefined behaviour
Touch(S, a) ==
    Let([T \in {S} |-> IF Valid(T, a) THEN T ELSE [T EXCEPT !.ub = TRUE]])

\* GET(p): *(uintptr_t *)(p)
GET(S, p) ==
    Let([a \in {p} |->
        IF Valid(S, a) /\ a \in DOMAIN S.mem THEN S.mem[a] ELSE S.o.hdr])

\* PUT(p, val): *(uintptr_t *)(p) = (val)
PUT(S, p, val) ==
    Let([T \in {S} |->
    Let([a \in {p} |->
        IF Valid(T, a) THEN [T EXCEPT !.mem = (a :> val) @@ T.mem]
        ELSE [T EXCEPT !.ub = TRUE]])])

\* PACK(size, alloc): (size) | (alloc), alloc in {0, 1}
PACK(size, alloc) == Let([s \in {size} |-> IF s % 2 = 1 THEN s ELSE s + alloc])

GET_SIZE(S, p) == Let([w \in {GET(S, p)} |-> w - (w % DSIZE)])
GET_ALLOC(S, p) == GET(S, p) % 2

HDRP(bp) == Wrap(bp - WSIZE + Modulus)
FTRP(S, bp) == Wrap(bp + GET_SIZE(S, HDRP(bp)) - DSIZE + Modulus)
NEXT_BLKP(S, bp) == Wrap(bp + GET_SIZE(S, HDRP(bp)))
PREV_BLKP(S, bp) == Wrap(bp - GET_SIZE(S, Wrap(bp - DSIZE + Modulus)) + Modulus)

\* the link words of a free block: *((char **)(bp)), *((char **)(bp + WSIZE))
LinkWord(S, p) ==
    Let([a \in {p} |->
        IF Valid(S, a) /\ a \in DOMAIN S.mem THEN S.mem[a] ELSE S.o.ptr])
GET_PREV_PTR(S, bp) == LinkWord(S, bp)
GET_NEXT_PTR(S, bp) == LinkWord(S, Wrap(bp + WSIZE))
SET_PREV_PTR(S, bp, addr) == PUT(S, bp, addr)
SET_NEXT_PTR(S, bp, addr) == PUT(S, Wrap(bp + WSIZE), addr)

\* ---------------------------------------------------------------- free list
insert_to_free_list(S, bp) ==
    Let([S1 \in {SET_NEXT_PTR(S, bp, S.free_listp)} |->
    Let([S2 \in {SET_PREV_PTR(S1, S1.free_listp, bp)} |->
    Let([S3 \in {SET_PREV_PTR(S2, bp, NULL)} |->
        [S3 EXCEPT !.free_listp = bp]])])])

remove_from_free_list(S, p) ==
    Let([bp \in {p} |->
    Let([T0 \in {Touch(S, bp)} |->
    Let([T \in {Touch(T0, Wrap(bp + WSIZE))} |->
    Let([prev \in {GET_PREV_PTR(T, bp)} |->
    Let([next \in {GET_NEXT_PTR(T, bp)} |->
    Let([S1 \in {IF prev # NULL THEN SET_NEXT_PTR(T, prev, next)
         ELSE [T EXCEPT !.free_listp = next]} |->
    Let([next1 \in {GET_NEXT_PTR(S1, bp)} |->
    Let([prev1 \in {GET_PREV_PTR(S1, bp)} |->
        SET_PREV_PTR(S1, next1, prev1)])])])])])])])])

\* ----------------------------------------------------------------- coalesce
\* the loads coalesce makes before it branches
CoalesceLoads(S, bp) ==
    Let([pb \in {PREV_BLKP(S, bp)} |->
    Let([nb \in {NEXT_BLKP(S, bp)} |->
    Let([pf \in {FTRP(S, pb)} |->
    Let([T1 \in {Touch(S, Wrap(bp - DSIZE + Modulus))} |->
    Let([T2 \in {Touch(T1, HDRP(pb))} |->
    Let([T3 \in {Touch(T2, pf)} |->
    Let([T4 \in {Touch(T3, HDRP(bp))} |->
        Touch(T4, HDRP(nb))])])])])])])])

\* the result: the state, and the block returned
coalesce(S0, bp) ==
    Let([S \in {CoalesceLoads(S0, bp)} |->
    Let([pb \in {PREV_BLKP(S, bp)} |->
    Let([nx \in {NEXT_BLKP(S, bp)} |->
    Let([pf \in {FTRP(S, pb)} |->
    Let([prev_alloc \in {GET_ALLOC(S, pf) # 0 \/ pb = bp} |->
    Let([next_alloc \in {GET_ALLOC(S, HDRP(nx)) # 0} |->
    Let([size \in {GET_SIZE(S, HDRP(bp))} |->
        IF prev_alloc /\ next_alloc THEN
            [S |-> insert_to_free_list(S, bp), bp |-> bp]
        ELSE IF prev_alloc /\ ~next_alloc THEN
            Let([sz \in {Wrap(size + GET_SIZE(S, HDRP(nx)))} |->
            Let([A \in {remove_from_free_list(S, nx)} |->
            Let([B \in {PUT(A, HDRP(bp), PACK(sz, 0))} |->
            Let([f \in {FTRP(B, bp)} |->
            Let([C \in {PUT(B, f, PACK(sz, 0))} |->
                [S |-> insert_to_free_list(C, bp), bp |-> bp]])])])])])
        ELSE IF ~prev_alloc /\ next_alloc THEN
            Let([sz \in {Wrap(size + GET_SIZE(S, HDRP(pb)))} |->
            Let([A \in {remove_from_free_list(S, pb)} |->
            Let([f \in {FTRP(A, bp)} |->
            Let([B \in {PUT(A, f, PACK(sz, 0))} |->
            Let([pb1 \in {PREV_BLKP(B, bp)} |->
            Let([C \in {PUT(B, HDRP(pb1), PACK(sz, 0))} |->
            Let([nb \in {PREV_BLKP(C, bp)} |->
                [S |-> insert_to_free_list(C, nb), bp |-> nb]])])])])])])])
        ELSE
            Let([sz \in {Wrap(size + GET_SIZE(S, HDRP(pb))
                                   + GET_SIZE(S, HDRP(nx)))} |->
            Let([A \in {remove_from_free_list(S, pb)} |->
            Let([nx1 \in {NEXT_BLKP(A, bp)} |->
            Let([B \in {remove_from_free_list(A, nx1)} |->
            Let([pb1 \in {PREV_BLKP(B, bp)} |->
            Let([C \in {PUT(B, HDRP(pb1), PACK(sz, 0))} |->
            Let([nx2 \in {NEXT_BLKP(C, bp)} |->
            Let([f \in {FTRP(C, nx2)} |->
            Let([D \in {PUT(C, f, PACK(sz, 0))} |->
            Let([nb \in {PREV_BLKP(D, bp)} |->
                [S |-> insert_to_free_list(D, nb), bp |-> nb]])])])])])])])])])])
    ])])])])])])])

\* -------------------------------------------------------------------- place
place(S0, bp, asize) ==
    Let([S \in {Touch(S0, HDRP(bp))} |->
    Let([oldsize \in {GET_SIZE(S, HDRP(bp))} |->
    Let([remain \in {Wrap(oldsize - asize + Modulus)} |->
        IF remain >= DSIZE + OVERHEAD THEN
            Let([A \in {PUT(S, HDRP(bp), PACK(asize, 1))} |->
            Let([f \in {FTRP(A, bp)} |->
            Let([B \in {PUT(A, f, PACK(asize, 1))} |->
            Let([C0 \in {remove_from_free_list(B, bp)} |->
            Let([C \in {Touch(C0, HDRP(bp))} |->
            Let([nb \in {NEXT_BLKP(C, bp)} |->
            Let([D \in {PUT(C, HDRP(nb), PACK(remain, 0))} |->
            Let([g \in {FTRP(D, nb)} |->
            Let([E \in {PUT(D, g, PACK(remain, 0))} |->
                coalesce(E, nb).S])])])])])])])])])
        ELSE
            Let([A \in {PUT(S, HDRP(bp), PACK(oldsize, 1))} |->
            Let([f \in {FTRP(A, bp)} |->
            Let([B \in {PUT(A, f, PACK(oldsize, 1))} |->
                remove_from_free_list(B, bp)])])])])])])

\* ----------------------------------------------------------------- mem_sbrk
\* memlib's mem_sbrk(incr): the old break, or failure when the heap is full
mem_sbrk_ok(S, incr) == S.brk + incr <= HeapLimit

\* -------------------------------------------------------------- extend_heap
\* the result: the state, the block (NULL on failure)
extend_heap(S, words) ==
    Let([size \in {IF words % 2 = 1 THEN Wrap((words + 1) * WSIZE)
         ELSE Wrap(words * WSIZE)} |->
        IF ~mem_sbrk_ok(S, size) THEN [S |-> S, bp |-> NULL]
        ELSE
            Let([bp \in {S.brk} |->
            Let([G \in {[S EXCEPT !.brk = S.brk + size]} |->
            Let([A \in {PUT(G, HDRP(bp), PACK(size, 0))} |->
            Let([f \in {FTRP(A, bp)} |->
            Let([B \in {PUT(A, f, PACK(size, 0))} |->
            Let([nb \in {NEXT_BLKP(B, bp)} |->
            Let([C \in {PUT(B, HDRP(nb), PACK(0, 1))} |->
                coalesce(C, bp)])])])])])])])])

\* ----------------------------------------------------------------- find_fit
\* listIdx after the halving loop
RECURSIVE ListIdxLoop(_, _)
ListIdxLoop(listIdx, size) ==
    IF listIdx < LISTLIMIT /\ size > 1
    THEN ListIdxLoop(listIdx + 1, size \div 2)
    ELSE listIdx

ListIdx(asize) == ListIdxLoop(0, asize)

\* the for loop from bp: the block returned (NULL: none), whether an access
\* left the heap, whether the loop comes back to a block it has tested
RECURSIVE FitLoop(_, _, _, _, _)
FitLoop(S, bp, asize, seen, ub) ==
    Let([ub1 \in {ub \/ ~Valid(S, HDRP(bp))} |->
        IF GET_ALLOC(S, HDRP(bp)) # 0
        THEN [bp |-> NULL, ub |-> ub1, hang |-> FALSE]
        ELSE IF GET_SIZE(S, HDRP(bp)) >= asize
        THEN [bp |-> bp, ub |-> ub1, hang |-> FALSE]
        ELSE
            Let([nx \in {GET_NEXT_PTR(S, bp)} |->
            Let([ub2 \in {ub1 \/ ~Valid(S, Wrap(bp + WSIZE))} |->
                IF nx \in seen \cup {bp}
                THEN [bp |-> NULL, ub |-> ub2, hang |-> TRUE]
                ELSE FitLoop(S, nx, asize, seen \cup {bp}, ub2)])])])

find_fit(S, asize) ==
    Let([listIdx \in {ListIdx(asize)} |->
        IF listIdx \in DOMAIN S.segregated_lists
        THEN FitLoop(S, S.segregated_lists[listIdx], asize, {}, FALSE)
        ELSE FitLoop(S, S.o.ptr, asize, {}, TRUE)])

\* ------------------------------------------------------------------- malloc
ALIGN(size) == Let([t \in {Wrap(size + (ALIGNMENT - 1))} |-> t - (t % DSIZE)])

MAX(x, y) == IF x > y THEN x ELSE y

\* asize, the adjusted block size
AdjustedSize(size) ==
    IF size <= DSIZE THEN DSIZE + OVERHEAD ELSE ALIGN(Wrap(size + OVERHEAD))

\* malloc as it would be without its test for spurious requests
malloc_unguarded(S, size) ==
    Let([asize \in {AdjustedSize(size)} |->
    Let([fit \in {find_fit(S, asize)} |->
    Let([F \in {[S EXCEPT !.ub = S.ub \/ fit.ub,
                          !.hang = S.hang \/ fit.hang]} |->
        IF fit.hang THEN
            [S |-> F, ret |-> NULL, sbrk |-> FALSE, oom |-> FALSE]
        ELSE IF fit.bp # NULL THEN
            Let([bp \in {fit.bp} |->
                [S |-> place(F, bp, asize), ret |-> bp,
                 sbrk |-> FALSE, oom |-> FALSE]])
        ELSE
            Let([extendsize \in {MAX(asize, CHUNKSIZE)} |->
            Let([ext \in {extend_heap(F, extendsize \div WSIZE)} |->
                IF ext.bp = NULL THEN
                    [S |-> F, ret |-> NULL, sbrk |-> TRUE, oom |-> TRUE]
                ELSE
                    Let([X \in {ext.S} |->
                    Let([bp \in {ext.bp} |->
                        [S |-> place(X, bp, asize), ret |-> bp,
                         sbrk |-> TRUE, oom |-> FALSE]])])])])])])])

\* the result: the state, the pointer returned, whether mem_sbrk was called
\* and whether it failed; a search that never ends is where the call stays
malloc(S, size) ==
    IF size <= 0 THEN [S |-> S, ret |-> NULL, sbrk |-> FALSE, oom |-> FALSE]
    ELSE
        Let([asize \in {AdjustedSize(size)} |->
        Let([fit \in {find_fit(S, asize)} |->
        Let([F \in {[S EXCEPT !.ub = S.ub \/ fit.ub,
                              !.hang = S.hang \/ fit.hang]} |->
            IF fit.hang THEN
                [S |-> F, ret |-> NULL, sbrk |-> FALSE, oom |-> FALSE]
            ELSE IF fit.bp # NULL THEN
                Let([bp \in {fit.bp} |->
                    [S |-> place(F, bp, asize), ret |-> bp,
                     sbrk |-> FALSE, oom |-> FALSE]])
            ELSE
                Let([extendsize \in {MAX(asize, CHUNKSIZE)} |->
                Let([ext \in {extend_heap(F, extendsize \div WSIZE)} |->
                    IF ext.bp = NULL THEN
                        [S |-> F, ret |-> NULL, sbrk |-> TRUE, oom |-> TRUE]
                    ELSE
                        Let([X \in {ext.S} |->
                        Let([bp \in {ext.bp} |->
                            [S |-> place(X, bp, asize), ret |-> bp,
                             sbrk |-> TRUE, oom |-> FALSE]])])])])])])])

\* --------------------------------------------------------------------- free
free(S, ptr) ==
    IF ptr = NULL THEN S
    ELSE
        Let([T \in {Touch(S, HDRP(ptr))} |->
        Let([size \in {GET_SIZE(T, HDRP(ptr))} |->
        Let([A \in {PUT(T, HDRP(ptr), PACK(size, 0))} |->
        Let([f \in {FTRP(A, ptr)} |->
        Let([B \in {PUT(A, f, PACK(size, 0))} |->
            coalesce(B, ptr).S])])])])])

\* ---------------------------------------------------------- memcpy / memset
\* an access to the n bytes at p leaves the heap
RangeBad(S, p, n) == n > 0 /\ (p < HeapBase \/ p + n > S.brk \/ p % WSIZE # 0)

\* memcpy(dst, src, n), word by word.  A word of src the allocator never
\* stored holds the caller's data: its copy is a word of dst that is no
\* longer one the allocator stored.
memcpy(S, dst, src, n) ==
    Let([from \in {{a \in DOMAIN S.mem : Wrap(a - src + Modulus) < n}} |->
    Let([to \in {{a \in DOMAIN S.mem : Wrap(a - dst + Modulus) < n}} |->
    Let([new \in {{a \in {Wrap(dst + Wrap(b - src + Modulus)) : b \in from} :
                      Valid(S, a)}} |->
    Let([T \in {[S EXCEPT !.ub = S.ub \/ RangeBad(S, dst, n)
                                       \/ RangeBad(S, src, n)]} |->
        [T EXCEPT !.mem = [a \in (DOMAIN S.mem \ to) \cup new |->
                              IF a \in new
                              THEN S.mem[Wrap(src + Wrap(a - dst + Modulus))]
                              ELSE S.mem[a]]]])])])])

\* memset(p, 0, n): every stored word wholly inside the n bytes becomes 0
memset(S, p, n) ==
    Let([T \in {[S EXCEPT !.ub = S.ub \/ RangeBad(S, p, n)]} |->
        [T EXCEPT !.mem = [a \in DOMAIN S.mem |->
                              IF Wrap(a - p + Modulus) + WSIZE <= n
                              THEN 0 ELSE S.mem[a]]]])

\* ------------------------------------------------------------------ realloc
\* oldsize, the number of bytes realloc copies
CopyLength(S, oldptr, size) ==
    Let([bsize \in {GET_SIZE(S, HDRP(oldptr))} |->
        IF size < bsize THEN size ELSE bsize])

\* the result: as malloc, and the number of bytes copied
realloc(S, oldptr, size) ==
    IF size = 0 THEN
        [S |-> free(S, oldptr), ret |-> NULL, sbrk |-> FALSE, oom |-> FALSE,
         copied |-> 0]
    ELSE IF oldptr = NULL THEN
        [copied |-> 0] @@ malloc(S, size)
    ELSE
        Let([m \in {malloc(S, size)} |->
            IF m.ret = NULL THEN [copied |-> 0] @@ m
            ELSE
                Let([M \in {m.S} |->
                Let([newptr \in {m.ret} |->
                Let([T \in {Touch(M, HDRP(oldptr))} |->
                Let([oldsize \in {CopyLength(T, oldptr, size)} |->
                Let([C \in {memcpy(T, newptr, oldptr, oldsize)} |->
                Let([F \in {free(C, oldptr)} |->
                    [S |-> F, ret |-> newptr, sbrk |-> m.sbrk,
                     oom |-> m.oom, copied |-> oldsize]])])])])])])])

\* ------------------------------------------------------------------- calloc
\* the result: as malloc, the number of bytes memset is called with and where
calloc(S, nmemb, size) ==
    Let([bytes \in {Wrap(nmemb * size)} |->
    Let([m \in {malloc(S, bytes)} |->
    Let([M \in {m.S} |->
        IF M.hang THEN [bytes |-> 0, memset_at |-> NULL] @@ m
        ELSE
            [S |-> memset(M, m.ret, bytes), ret |-> m.ret, sbrk |-> m.sbrk,
             oom |-> m.oom, bytes |-> bytes, memset_at |-> m.ret]])])])

\* ------------------------------------------------------------------ mm_init
\* the result: the state, and 0 or -1
mm_init(S) ==
    IF ~mem_sbrk_ok(S, 4 * WSIZE) THEN [S |-> S, ret |-> -1]
    ELSE
        Let([hp \in {S.brk} |->
        Let([G \in {[S EXCEPT !.brk = S.brk + 4 * WSIZE]} |->
        Let([A \in {PUT(G, hp, 0)} |->
        Let([B \in {PUT(A, hp + 1 * WSIZE, PACK(DSIZE, 1))} |->
        Let([C \in {PUT(B, hp + 2 * WSIZE, PACK(DSIZE, 1))} |->
        Let([D \in {PUT(C, hp + 3 * WSIZE, PACK(0, 1))} |->
        Let([E \in {[D EXCEPT !.heap_listp = hp + 2 * WSIZE,
                              !.segregated_lists =
                                  [list \in 0 .. LISTLIMIT - 1 |-> NULL]]} |->
        Let([ext \in {extend_heap(E, 4)} |->
            IF ext.bp = NULL THEN [S |-> ext.S, ret |-> -1]
            ELSE [S |-> ext.S, ret |-> 0]])])])])])])])])


\* ------------------------------------------------------------------- state
VARIABLES
    mem,               \* the heap words stored so far: address -> word
    brk,               \* memlib's break: one past the last heap byte
    heap_listp,        \* pointer to the prologue block
    segregated_lists,  \* the bucket table
    free_listp,        \* head of the free list
    status,            \* "uninit", "ready", "segv" (trapped), "hang" (loops)
    live,              \* pointers handed out and not released -> bytes asked
    last,              \* the last public call and what it returned
    nops,              \* public calls made after mm_init
    sc                 \* the driver's script: its position and its pointers

vars == <<mem, brk, heap_listp, segregated_lists, free_listp, status, live,
          last, nops, sc>>

\* words a load from foreign memory may yield when read as a header
ForeignWords == {0, 1}

\* the allocator's state at the start of a call, with the call's oracle
St(o) == [mem |-> mem, brk |-> brk, heap_listp |-> heap_listp,
          segregated_lists |-> segregated_lists, free_listp |-> free_listp,
          ub |-> FALSE, hang |-> FALSE, o |-> o]

\* how a call that ran to state S ends: an access outside the heap may trap
Outcomes(S) == IF S.ub THEN {"segv", IF S.hang THEN "hang" ELSE "ready"}
               ELSE IF S.hang THEN {"hang"} ELSE {"ready"}

\* the call returned: the allocator's variables take S's values
Commit(S) ==
    /\ mem' = S.mem
    /\ brk' = S.brk
    /\ heap_listp' = S.heap_listp
    /\ segregated_lists' = S.segregated_lists
    /\ free_listp' = S.free_listp

\* S leaves every heap word, the list heads and the heap end as they are
Same(S) ==
    /\ S.mem = mem
    /\ S.brk = brk
    /\ S.heap_listp = heap_listp
    /\ S.segregated_lists = segregated_lists
    /\ S.free_listp = free_listp

\* the blocks the loop of mm_checkheap visits from bp on
RECURSIVE WalkFrom(_, _)
WalkFrom(bp, seen) ==
    IF HDRP(bp) \notin DOMAIN mem \/ bp \in seen
       \/ mem[HDRP(bp)] - (mem[HDRP(bp)] % DSIZE) = 0
    THEN seen
    ELSE WalkFrom(Wrap(bp + mem[HDRP(bp)] - (mem[HDRP(bp)] % DSIZE)),
                  seen \cup {bp})

\* the blocks between the prologue and the epilogue
Blocks == IF status = "uninit" THEN {}
          ELSE WalkFrom(heap_listp, {}) \ {heap_listp}

HdrOf(bp) == mem[HDRP(bp)]
SizeOf(bp) == HdrOf(bp) - (HdrOf(bp) % DSIZE)
IsFree(bp) == HdrOf(bp) % 2 = 0
FreeBlocks == {b \in Blocks : IsFree(b)}

\* some free block of the heap has size >= asize
FitExists(asize) == \E b \in FreeBlocks : SizeOf(b) >= asize

\* the blocks on the list of bucket list: the next links from its head
RECURSIVE BucketFrom(_, _)
BucketFrom(bp, seen) ==
    IF bp = NULL \/ bp \in seen \/ Wrap(bp + WSIZE) \notin DOMAIN mem
    THEN seen \cup ({bp} \ {NULL})
    ELSE BucketFrom(mem[Wrap(bp + WSIZE)], seen \cup {bp})

Bucket(list) == BucketFrom(segregated_lists[list], {})

\* the len bytes at p before the call (state S) are the len bytes at q after
\* it (state F)
Preserved(S, F, p, q, len) ==
    /\ \A a \in {x \in DOMAIN S.mem : Wrap(x - p + Modulus) < len} :
         /\ Wrap(q + Wrap(a - p + Modulus)) \in DOMAIN F.mem
         /\ F.mem[Wrap(q + Wrap(a - p + Modulus))] = S.mem[a]
    /\ \A b \in {x \in DOMAIN F.mem : Wrap(x - q + Modulus) < len} :
         Wrap(p + Wrap(b - q + Modulus)) \in DOMAIN S.mem

\* the bytes malloc(n) asks of mem_sbrk when it finds no fit
ExtendBytes(n) ==
    Let([words \in {MAX(AdjustedSize(n), CHUNKSIZE) \div WSIZE} |->
        IF words % 2 = 1 THEN Wrap((words + 1) * WSIZE)
        ELSE Wrap(words * WSIZE)])

\* the record of a public call: its arguments, the pointer returned, whether
\* mem_sbrk was called and failed, the break before the call, whether a free
\* block of the adjusted size existed before the call, whether mem_sbrk
\* could not extend the heap for the request, whether the pointer returned
\* was live already, the bytes asked of p, and r's details
Call(op, p, n, ret, r) ==
    [op |-> op, p |-> p, n |-> n, ret |-> ret, sbrk |-> r.sbrk, oom |-> r.oom,
     brk0 |-> brk, fit |-> n > 0 /\ FitExists(AdjustedSize(n)),
     full |-> n > 0 /\ ~mem_sbrk_ok([brk |-> brk], ExtendBytes(n)),
     dup |-> ret # NULL /\ ret \in DOMAIN live \ {p},
     oldn |-> IF p \in DOMAIN live THEN live[p] ELSE 0,
     same |-> Same(r.S), preserved |-> r.preserved,
     nullwrite |-> r.nullwrite, returned |-> TRUE]

NoCall == [op |-> "none", p |-> NULL, n |-> 0, ret |-> NULL, sbrk |-> FALSE,
           oom |-> FALSE, brk0 |-> HeapBase, fit |-> FALSE, full |-> FALSE,
           dup |-> FALSE,
           oldn |-> 0, same |-> TRUE, preserved |-> TRUE,
           nullwrite |-> FALSE, returned |-> TRUE]

NoDetail == [preserved |-> TRUE, nullwrite |-> FALSE]

\* request sizes tried: nothing, small, a size of class LISTLIMIT, and sizes
\* whose adjustment wraps around
Sizes == {0, 16, 100, 1048576, Modulus - 16, Modulus - 1}
ReallocSizes == {0, 100, 1048576, Modulus - 16}
CallocArgs == {<<0, 8>>, <<2, 8>>, <<4095, 4096>>}
ScriptSizes == (Sizes \ {0}) \cup {8, 4000}

\* words a load from foreign memory may yield when read as a pointer: NULL,
\* or a pointer to a free block of the heap
ForeignPtrs == {NULL} \cup FreeBlocks

Oracle == [hdr : ForeignWords, ptr : ForeignPtrs]

NoScript == [pc |-> 0, n |-> 0, p1 |-> NULL, p2 |-> NULL, p3 |-> NULL]

Init ==
    /\ mem = << >>
    /\ brk = HeapBase
    /\ heap_listp = NULL
    /\ segregated_lists = [list \in 0 .. LISTLIMIT - 1 |-> NULL]
    /\ free_listp = NULL
    /\ status = "uninit"
    /\ live = << >>
    /\ last = NoCall
    /\ nops = 0
    /\ sc = NoScript

\* the end of a public call that ran to state S
Finish(S, callrec, newlive) ==
    /\ status' \in Outcomes(S)
    /\ nops' = nops + 1
    /\ IF status' = "ready"
       THEN Commit(S) /\ live' = newlive /\ last' = callrec
       ELSE /\ UNCHANGED <<mem, brk, heap_listp, segregated_lists,
                           free_listp, live>>
            /\ last' = [callrec EXCEPT !.returned = FALSE, !.ret = NULL,
                                       !.dup = FALSE]

mm_init_call ==
    /\ status = "uninit"
    /\ \E o \in Oracle :
        \E S0 \in {St(o)} : \E r \in {mm_init(S0)} :
        /\ status' \in IF r.ret = 0 THEN Outcomes(r.S) ELSE {"uninit"}
        /\ IF status' = "ready" THEN Commit(r.S)
           ELSE UNCHANGED <<mem, brk, heap_listp, segregated_lists, free_listp>>
        /\ UNCHANGED <<live, last, nops>>

malloc_call(size) ==
    /\ status = "ready"
    /\ \E o \in Oracle :
        \E S0 \in {St(o)} : \E r \in {malloc(S0, size)} :
            Finish(r.S, Call("malloc", NULL, size, r.ret, NoDetail @@ r),
                   IF r.ret = NULL THEN live ELSE (r.ret :> size) @@ live)

free_call(ptr) ==
    /\ status = "ready"
    /\ \E o \in Oracle :
        \E S0 \in {St(o)} : \E S \in {free(S0, ptr)} :
            Finish(S, Call("free", ptr, 0, NULL,
                           [S |-> S, sbrk |-> FALSE, oom |-> FALSE] @@ NoDetail),
                   [q \in DOMAIN live \ {ptr} |-> live[q]])

realloc_call(oldptr, size) ==
    /\ status = "ready"
    /\ \E o \in Oracle :
        \E S0 \in {St(o)} : \E r \in {realloc(S0, oldptr, size)} :
        \E kept \in {IF size = 0 \/ r.ret # NULL
                     THEN [q \in DOMAIN live \ {oldptr} |-> live[q]]
                     ELSE live} :
        \E len \in {IF oldptr \in DOMAIN live /\ live[oldptr] < size
                    THEN live[oldptr] ELSE size} :
            Finish(r.S, Call("realloc", oldptr, size, r.ret,
                             [preserved |-> \/ oldptr = NULL \/ r.ret = NULL
                                            \/ Preserved(S0, r.S, oldptr,
                                                         r.ret, len),
                              nullwrite |-> FALSE] @@ r),
                   IF r.ret = NULL THEN kept ELSE (r.ret :> size) @@ kept)

calloc_call(nmemb, size) ==
    /\ status = "ready"
    /\ \E o \in Oracle :
        \E S0 \in {St(o)} : \E r \in {calloc(S0, nmemb, size)} :
            Finish(r.S, Call("calloc", NULL, Wrap(nmemb * size), r.ret,
                             [nullwrite |-> r.memset_at = NULL /\ r.bytes > 0]
                             @@ NoDetail @@ r),
                   IF r.ret = NULL THEN live
                   ELSE (r.ret :> Wrap(nmemb * size)) @@ live)

\* ------------------------------------------------- any run of public calls
MmInit == mm_init_call /\ UNCHANGED sc

Malloc ==
    /\ nops < MaxOps
    /\ \E size \in Sizes : malloc_call(size)
    /\ UNCHANGED sc

Free ==
    /\ nops < MaxOps
    /\ \E ptr \in DOMAIN live \cup {NULL} : free_call(ptr)
    /\ UNCHANGED sc

Realloc ==
    /\ nops < MaxOps
    /\ \E oldptr \in DOMAIN live \cup {NULL}, size \in ReallocSizes :
        realloc_call(oldptr, size)
    /\ UNCHANGED sc

Calloc ==
    /\ nops < MaxOps
    /\ \E a \in CallocArgs : calloc_call(a[1], a[2])
    /\ UNCHANGED sc

Next == MmInit \/ Malloc \/ Free \/ Realloc \/ Calloc

Spec == Init /\ [][Next]_vars

\* ----------------------- the script init; p1 = malloc(n); p2 = malloc(n);
\*                         free(p1); p3 = malloc(n)
ScriptInit == sc.pc = 0 /\ mm_init_call /\ sc' = [sc EXCEPT !.pc = 1]

ScriptFirst ==
    /\ sc.pc = 1
    /\ \E n \in ScriptSizes :
        /\ malloc_call(n)
        /\ sc' = [sc EXCEPT !.pc = 2, !.n = n, !.p1 = last'.ret]

ScriptSecond ==
    /\ sc.pc = 2
    /\ malloc_call(sc.n)
    /\ sc' = [sc EXCEPT !.pc = 3, !.p2 = last'.ret]

ScriptRelease ==
    /\ sc.pc = 3
    /\ free_call(sc.p1)
    /\ sc' = [sc EXCEPT !.pc = 4]

ScriptThird ==
    /\ sc.pc = 4
    /\ malloc_call(sc.n)
    /\ sc' = [sc EXCEPT !.pc = 5, !.p3 = last'.ret]

ScriptNext ==
    ScriptInit \/ ScriptFirst \/ ScriptSecond \/ ScriptRelease \/ ScriptThird

ScriptSpec == Init /\ [][ScriptNext]_vars

\* ------------- the script init; any mallocs that succeed; free of every
\*               pointer returned, in any order
MaxAllocs == 2

ReleaseInit == sc.pc = 0 /\ mm_init_call /\ sc' = [sc EXCEPT !.pc = 6]

\* one more malloc; the script stops (pc 8) at a malloc that returns NULL
ReleaseAllocate ==
    /\ sc.pc = 6
    /\ sc.n < MaxAllocs
    /\ \E n \in ScriptSizes : malloc_call(n)
    /\ sc' = [sc EXCEPT !.pc = IF last'.ret = NULL THEN 8 ELSE 6,
                        !.n = sc.n + 1]

ReleaseFree ==
    /\ sc.pc \in {6, 7}
    /\ \E ptr \in DOMAIN live : free_call(ptr)
    /\ sc' = [sc EXCEPT !.pc = 7]

ReleaseNext == ReleaseInit \/ ReleaseAllocate \/ ReleaseFree

ReleaseSpec == Init /\ [][ReleaseNext]_vars

\* -------------------------------------------------------- the properties
\* the bytes [header, header + size) of block bp
Lo(bp) == HDRP(bp)
Hi(bp) == HDRP(bp) + SizeOf(bp)
Apart(lo1, hi1, lo2, hi2) == hi1 <= lo2 \/ hi2 <= lo1

\* C1: no overlap.  After init and any run of malloc, free, realloc and
\* calloc calls on live pointers, no call returns a pointer that is live
\* already, the byte ranges of two distinct allocated blocks are disjoint,
\* and no allocated block's range meets a free block, the prologue or the
\* epilogue.
C1_NoOverlap ==
    status = "ready" =>
        /\ ~last.dup
        /\ \A p \in DOMAIN live :
            /\ HDRP(p) \in DOMAIN mem
            /\ \A q \in DOMAIN live \ {p} :
                 Apart(Lo(p), Hi(p), Lo(q), Hi(q))
            /\ \A b \in FreeBlocks : Apart(Lo(p), Hi(p), Lo(b), Hi(b))
            /\ Apart(Lo(p), Hi(p), HDRP(heap_listp), heap_listp + WSIZE)
            /\ Apart(Lo(p), Hi(p), brk - WSIZE, brk)

\* C2: no adjacent free blocks.  After every public call returns, the walk
\* from the prologue to the epilogue finds no two consecutive blocks that
\* are both marked free.
C2_NoAdjacentFree ==
    status = "ready" =>
        \A b \in FreeBlocks : Wrap(b + SizeOf(b)) \notin FreeBlocks

\* C3: free-list membership.  After every public call returns, every block
\* marked free is on exactly one of the LISTLIMIT bucket lists, and every
\* block marked allocated is on none.
C3_BucketMembership ==
    status = "ready" =>
        \A b \in Blocks :
            Cardinality({list \in 0 .. LISTLIMIT - 1 : b \in Bucket(list)})
                = IF IsFree(b) THEN 1 ELSE 0

\* C4: fit correctness.  When the heap holds a free block of at least the
\* adjusted size of a request n > 0, malloc(n) returns a non-null pointer
\* and does not call mem_sbrk: the heap end is as before the call.
C4_FitCorrectness ==
    (status = "ready" /\ last.op = "malloc" /\ last.fit) =>
        last.ret # NULL /\ ~last.sbrk /\ brk = last.brk0

\* C5: boundary-tag consistency.  After every public call returns, the
\* footer word of every free block (at block start + size - one word) is
\* the block's header word: the same size, the same free flag.
C5_FooterMatchesHeader ==
    status = "ready" =>
        \A b \in FreeBlocks :
            /\ Wrap(Hi(b) - WSIZE) \in DOMAIN mem
            /\ mem[Wrap(Hi(b) - WSIZE)] = HdrOf(b)

\* C6: alignment.  mem_sbrk returning an aligned base, every non-null
\* pointer malloc, realloc or calloc returns is a multiple of ALIGNMENT, and
\* every block size in the heap is a multiple of ALIGNMENT and at least the
\* minimum block size, four words.
C6_Alignment ==
    status = "ready" =>
        /\ last.ret % ALIGNMENT = 0
        /\ \A p \in DOMAIN live : p % ALIGNMENT = 0
        /\ \A b \in Blocks :
            /\ (HdrOf(b) - (HdrOf(b) % 2)) % ALIGNMENT = 0
            /\ SizeOf(b) >= 4 * WSIZE

\* C7: out of memory leaves the state unchanged.  When no free block fits
\* and mem_sbrk fails, malloc(n) returns null, and realloc(p, n) returns
\* null with p's block still allocated; every heap word, the list heads and
\* the heap end are as before the call.
C7_OutOfMemory ==
    (last.op \in {"malloc", "realloc"} /\ last.n > 0 /\ ~last.fit
     /\ last.full) =>
        /\ last.returned
        /\ status = "ready"
        /\ last.ret = NULL
        /\ last.same
        /\ (last.op = "realloc" /\ last.p # NULL) =>
               last.p \in DOMAIN live /\ ~IsFree(last.p)

\* C8: payload preservation on resize.  For p = malloc(n) and m > 0, a
\* realloc(p, m) that returns q # null leaves at q the first min(n, m) bytes
\* that were at p, p's old block free and q's block allocated.
C8_PayloadPreserved ==
    (status = "ready" /\ last.op = "realloc" /\ last.p # NULL /\ last.n > 0
     /\ last.ret # NULL) =>
        /\ last.preserved
        /\ HDRP(last.p) \in DOMAIN mem /\ IsFree(last.p)
        /\ HDRP(last.ret) \in DOMAIN mem /\ ~IsFree(last.ret)

\* C9: the failure path of calloc.  Whenever its malloc returns null (the
\* heap cannot grow, or the byte count is 0), calloc returns null and makes
\* no zeroing store: it never writes through a null pointer.
C9_CallocFailure ==
    (status = "ready" /\ last.op = "calloc" /\ last.ret = NULL) =>
        ~last.nullwrite

\* C10: a freed block is reused before the heap grows.  For every n > 0 the
\* script init; p1 = malloc(n); p2 = malloc(n); free(p1); p3 = malloc(n)
\* ends with p3 = p1, and its last malloc does not grow the heap.
C10_FreedBlockReused ==
    (sc.pc = 5 /\ status = "ready") =>
        sc.p3 = sc.p1 /\ ~last.sbrk /\ brk = last.brk0

\* check_block(bp) prints no error: bp is doubleword aligned and the header
\* word is the footer word
check_block(bp) ==
    /\ bp % 8 = 0
    /\ HDRP(bp) \in DOMAIN mem
    /\ Wrap(Hi(bp) - WSIZE) \in DOMAIN mem
    /\ mem[HDRP(bp)] = mem[Wrap(Hi(bp) - WSIZE)]

\* mm_checkheap prints no error: the prologue header, every block from the
\* prologue on, the epilogue header where the walk stops
mm_checkheap ==
    /\ HDRP(heap_listp) \in DOMAIN mem
    /\ SizeOf(heap_listp) = DSIZE /\ ~IsFree(heap_listp)
    /\ check_block(heap_listp)
    /\ \A bp \in Blocks : check_block(bp)
    /\ brk - WSIZE \in DOMAIN mem
    /\ mem[brk - WSIZE] = PACK(0, 1)
    /\ \A bp \in Blocks \cup {heap_listp} :
         Wrap(bp + SizeOf(bp)) \in Blocks \cup {brk}

\* C11: full release collapses the heap to one free block.  After init and
\* any run of mallocs that succeed followed by a free of every pointer they
\* returned, in any order, the heap between the prologue and the epilogue is
\* exactly one free block spanning that whole region, the block is on a
\* bucket list, and mm_checkheap reports no error.
C11_FullRelease ==
    (sc.pc = 7 /\ status = "ready" /\ live = << >>) =>
        /\ Blocks = {heap_listp + DSIZE}
        /\ IsFree(heap_listp + DSIZE)
        /\ Hi(heap_listp + DSIZE) = brk - WSIZE
        /\ \E list \in 0 .. LISTLIMIT - 1 : heap_listp + DSIZE \in Bucket(list)
        /\ mm_checkheap

\* C12: the sentinel frame.  In every state a public call returns to, the
\* prologue header and footer words both hold (DSIZE, allocated) and the
\* last word of the heap is an epilogue header (0, allocated): no call
\* changes a prologue word once mm_init has written it, and the word at the
\* heap end is the epilogue extend_heap wrote there.
C12_SentinelFrame ==
    status = "ready" =>
        /\ {HDRP(heap_listp), heap_listp, brk - WSIZE} \subseteq DOMAIN mem
        /\ mem[HDRP(heap_listp)] = PACK(DSIZE, 1)
        /\ mem[heap_listp] = PACK(DSIZE, 1)
        /\ mem[brk - WSIZE] = PACK(0, 1)

\* n + OVERHEAD rounded up to ALIGNMENT, computed without wrap-around, does
\* not fit in a word
Oversized(n) ==
    ((n + OVERHEAD + ALIGNMENT - 1) \div ALIGNMENT) * ALIGNMENT >= Modulus

\* C13: oversized requests are rejected.  With sizes computed modulo
\* 2^WordBits, malloc(n) for an n whose adjusted size does not fit in a word
\* returns NULL and leaves every heap word, the list heads and the heap end
\* as they were; and every non-null pointer malloc(n) returns is that of a
\* block whose size minus OVERHEAD is at least n.
C13_OversizedRejected ==
    (status = "ready" /\ last.op = "malloc" /\ last.n > 0) =>
        /\ Oversized(last.n) => last.ret = NULL /\ last.same
        /\ last.ret # NULL =>
               /\ HDRP(last.ret) \in DOMAIN mem
               /\ SizeOf(last.ret) - OVERHEAD >= last.n

\* C14: a zero-size allocation is a no-op.  In any state a call can be made
\* in, malloc(0) returns NULL and leaves every heap word, every bucket head,
\* the free-list head, the prologue pointer and the heap end unchanged.
C14_ZeroSizeNoOp ==
    [][(nops' = nops + 1 /\ last'.op = "malloc" /\ last'.n = 0) =>
           /\ status' = "ready"
           /\ last'.returned /\ last'.ret = NULL
           /\ UNCHANGED <<mem, brk, heap_listp, segregated_lists, free_listp,
                          live>>]_vars

\* malloc(0) has returned in a state with a live block
C14_Witness ==
    /\ status = "ready" /\ last.op = "malloc" /\ last.n = 0 /\ last.returned
    /\ live # << >>

\* adjusted sizes find_fit is asked for
FitSizes == {AdjustedSize(n) : n \in Sizes \ {0}}

\* the first block with size >= asize on the list from bp, in list order
\* (NULL: none)
RECURSIVE FirstOnList(_, _, _)
FirstOnList(bp, asize, seen) ==
    IF bp = NULL \/ bp \in seen \/ HDRP(bp) \notin DOMAIN mem THEN NULL
    ELSE IF SizeOf(bp) >= asize THEN bp
    ELSE IF Wrap(bp + WSIZE) \notin DOMAIN mem THEN NULL
    ELSE FirstOnList(mem[Wrap(bp + WSIZE)], asize, seen \cup {bp})

\* the first fit of the lowest class from list up that holds one (NULL: none)
RECURSIVE FirstFitFrom(_, _)
FirstFitFrom(list, asize) ==
    IF list >= LISTLIMIT THEN NULL
    ELSE IF FirstOnList(segregated_lists[list], asize, {}) # NULL
    THEN FirstOnList(segregated_lists[list], asize, {})
    ELSE FirstFitFrom(list + 1, asize)

\* C15: the result of the fit search.  In every state a call returns to and
\* for every adjusted size asize, find_fit(asize) returns the first block in
\* list order with size >= asize of the lowest class, from asize's class up,
\* that holds such a block, and NULL when no such class does; where the
\* starting class is empty it returns NULL and does not fail: it makes no
\* access outside the heap and its loop ends.
C15_FitSearch ==
    status = "ready" =>
        \A asize \in FitSizes : \A o \in Oracle :
            /\ ~find_fit(St(o), asize).ub
            /\ ~find_fit(St(o), asize).hang
            /\ find_fit(St(o), asize).bp = FirstFitFrom(ListIdx(asize), asize)

\* the blocks on the list from bp in memory M: the next links followed
RECURSIVE ChainOf(_, _, _)
ChainOf(M, bp, seen) ==
    IF bp = NULL \/ bp \in seen \/ Wrap(bp + WSIZE) \notin DOMAIN M
    THEN seen \cup ({bp} \ {NULL})
    ELSE ChainOf(M, M[Wrap(bp + WSIZE)], seen \cup {bp})

\* in state S: the blocks on the free_listp list, the blocks on some bucket
FreeListOf(S) == ChainOf(S.mem, S.free_listp, {})
BucketsOf(S) ==
    UNION {ChainOf(S.mem, S.segregated_lists[list], {}) :
               list \in 0 .. LISTLIMIT - 1}

\* the sum of the block sizes the walk of the heap finds from bp on
RECURSIVE SumFrom(_, _, _)
SumFrom(S, bp, seen) ==
    IF ~Valid(S, HDRP(bp)) \/ HDRP(bp) \notin DOMAIN S.mem \/ bp \in seen
       \/ GET_SIZE(S, HDRP(bp)) = 0
    THEN 0
    ELSE GET_SIZE(S, HDRP(bp))
             + SumFrom(S, NEXT_BLKP(S, bp), seen \cup {bp})

\* what C16 says of R = place(S, bp, asize), S0 the size of bp in S
PlaceSplits(S, R, bp, asize, S0) ==
    Let([rem \in {Wrap(bp + asize)} |->
    Let([fwd \in {Wrap(bp + S0)} |->
    Let([fsz \in {IF GET_ALLOC(S, HDRP(fwd)) = 0
                  THEN GET_SIZE(S, HDRP(fwd)) ELSE 0} |->
        /\ GET(R, HDRP(bp)) = PACK(asize, 1)
        /\ bp \notin FreeListOf(R) \cup BucketsOf(R)
        /\ GET(R, HDRP(rem)) = PACK(S0 - asize + fsz, 0)
        /\ rem \in BucketsOf(R)])])])

PlaceWhole(R, bp, S0) ==
    /\ GET(R, HDRP(bp)) = PACK(S0, 1)
    /\ bp \notin FreeListOf(R) \cup BucketsOf(R)

PlaceOK(S, bp, asize) ==
    Let([R \in {place(S, bp, asize)} |->
    Let([S0 \in {GET_SIZE(S, HDRP(bp))} |->
        /\ IF S0 - asize >= DSIZE + OVERHEAD
           THEN PlaceSplits(S, R, bp, asize, S0)
           ELSE PlaceWhole(R, bp, S0)
        /\ SumFrom(R, R.heap_listp, {}) = SumFrom(S, S.heap_listp, {})])])

\* C16: placement and splitting.  For a free block bp of size S0 >= asize,
\* place(bp, asize) splits iff S0 - asize is at least the minimum block
\* size.  On a split bp is allocated with size asize and off its free list,
\* and the high S0 - asize bytes are a free block, merged with a free
\* forward neighbour, on a bucket list; otherwise bp is allocated with size
\* S0 and off its free list.  The sum of the block sizes is unchanged.
C16_Placement ==
    status = "ready" =>
        \A bp \in FreeBlocks \cap BucketFrom(free_listp, {}) :
        \A asize \in {a \in FitSizes : DSIZE + OVERHEAD <= a /\ a <= SizeOf(bp)} :
        \A o \in Oracle :
            PlaceOK(St(o), bp, asize)

\* free's stores before it calls coalesce: ptr's header and footer marked
\* free
MarkedFree(S, ptr) ==
    Let([size \in {GET_SIZE(S, HDRP(ptr))} |->
    Let([A \in {PUT(S, HDRP(ptr), PACK(size, 0))} |->
        PUT(A, FTRP(A, ptr), PACK(size, 0))])])

\* the free blocks physically before and after block bp (at most one each)
FreeBefore(bp) == {q \in FreeBlocks : Wrap(q + SizeOf(q)) = bp}
FreeAfter(bp) == {q \in FreeBlocks : q = Wrap(bp + SizeOf(bp))}

RECURSIVE SumSizes(_)
SumSizes(bs) ==
    IF bs = {} THEN 0
    ELSE Let([q \in {CHOOSE x \in bs : TRUE} |->
             SizeOf(q) + SumSizes(bs \ {q})])

\* the lowest of a set of addresses
Lowest(bs) == CHOOSE x \in bs : \A y \in bs : x <= y

\* what C17 says of r = coalesce(S, bp), S being the state with bp marked
\* free
CoalesceOK(S, r, bp) ==
    Let([merged \in {{bp} \cup FreeBefore(bp) \cup FreeAfter(bp)} |->
    Let([size \in {SumSizes({bp} \cup FreeBefore(bp) \cup FreeAfter(bp))} |->
        /\ ~r.S.ub
        /\ r.bp = Lowest(merged)
        /\ GET(r.S, HDRP(r.bp)) = PACK(size, 0)
        /\ GET(r.S, Wrap(HDRP(r.bp) + size - WSIZE)) = PACK(size, 0)
        /\ \A q \in merged \ {r.bp} : q \notin FreeListOf(r.S)
        /\ \A a \in DOMAIN S.mem \ UNION {{q, q + WSIZE} : q \in FreeBlocks} :
             (a < HDRP(r.bp) \/ a >= HDRP(r.bp) + size) =>
                 a \in DOMAIN r.S.mem /\ r.S.mem[a] = S.mem[a]])])

\* C17: the cases of coalescing.  For a block bp just marked free,
\* coalesce(bp) returns a single free block: its size is the size of bp plus
\* the sizes of exactly the physical neighbours that were free, it starts at
\* the lowest start among the merged blocks (at bp when the previous block
\* is allocated, the prologue included), its header and footer both hold the
\* combined size, every absorbed neighbour is off the free list, and no word
\* outside the merged block changes but the link words of free blocks.
C17_Coalescing ==
    status = "ready" =>
        \A bp \in DOMAIN live : \A o \in Oracle :
            HDRP(bp) \in DOMAIN mem =>
                CoalesceOK(MarkedFree(St(o), bp),
                           coalesce(MarkedFree(St(o), bp), bp), bp)

\* C18: the copy length of realloc.  For a live pointer p and m > 0, a
\* realloc(p, m) that returns a block copies exactly min(old payload size,
\* m) bytes, the old payload size being the old block's size minus
\* OVERHEAD: it reads no byte of the old block past its payload (its footer,
\* the next block's header) and writes no byte past the new block's payload.
C18_CopyLength ==
    status = "ready" =>
        \A p \in DOMAIN live : \A m \in ReallocSizes \ {0} : \A o \in Oracle :
            (HDRP(p) \in DOMAIN mem /\ realloc(St(o), p, m).ret # NULL) =>
                /\ realloc(St(o), p, m).copied
                       = IF m < SizeOf(p) - OVERHEAD THEN m
                         ELSE SizeOf(p) - OVERHEAD
                /\ realloc(St(o), p, m).copied <= SizeOf(p) - OVERHEAD
                /\ realloc(St(o), p, m).copied
                       <= GET_SIZE(realloc(St(o), p, m).S,
                                   HDRP(realloc(St(o), p, m).ret)) - OVERHEAD

\* C19: the size-class index is always valid.  For the adjusted size of
\* every request made, sizes of 2^LISTLIMIT and more included, the index
\* find_fit computes by repeated halving lies in 0 .. LISTLIMIT - 1, so
\* segregated_lists is never indexed out of bounds; and over the adjusted
\* sizes and the block sizes of the heap the index is monotonic.
C19_ClassIndexValid ==
    /\ (last.op \in {"malloc", "realloc", "calloc"} /\ last.n > 0) =>
           ListIdx(AdjustedSize(last.n)) \in 0 .. LISTLIMIT - 1
    /\ \A s1, s2 \in FitSizes \cup {SizeOf(b) : b \in Blocks} :
           s1 <= s2 => ListIdx(s1) <= ListIdx(s2)

\* the list from bp, reached from prev, is a chain: blocks marked free, none
\* met twice, each one's prev link its predecessor, a NULL next link at the
\* end
RECURSIVE ChainOK(_, _, _)
ChainOK(bp, prev, seen) ==
    \/ bp = NULL
    \/ /\ bp \notin seen
       /\ {HDRP(bp), bp, Wrap(bp + WSIZE)} \subseteq DOMAIN mem
       /\ IsFree(bp)
       /\ mem[bp] = prev
       /\ ChainOK(mem[Wrap(bp + WSIZE)], bp, seen \cup {bp})

\* C20: the free lists are well-formed doubly linked chains.  After every
\* public call returns, the next links from the head of every list (the 20
\* buckets, free_listp) visit finitely many blocks, none twice, and end at
\* NULL; the head's prev link is NULL and every block's prev link is its
\* predecessor; every block visited is marked free.  Hence the loop of
\* find_fit ends, and the insertion and removal free makes, of a first, last
\* or only element too, make no access through a NULL link.
C20_FreeListsWellFormed ==
    status = "ready" =>
        /\ \A list \in 0 .. LISTLIMIT - 1 :
               ChainOK(segregated_lists[list], NULL, {})
        /\ ChainOK(free_listp, NULL, {})
        /\ \A o \in Oracle :
            /\ \A asize \in FitSizes : ~find_fit(St(o), asize).hang
            /\ \A bp \in DOMAIN live : ~free(St(o), bp).ub

====
